---- MODULE Spec2Model ----
(***************************************************************************)
(* The client-side request / cache / session core of the weather app:      *)
(* WeatherCache, ApiClient (axios instance with request and response       *)
(* interceptors), authApi, userApi, weatherApi, docSchemaApi               *)
(* (services/apiService) and AuthProvider (context/AuthContext), with the  *)
(* callers whose continuations matter: the login form, fetchUserData of    *)
(* ProfilePage and handleSearch of useWeatherSearch.                       *)
(*                                                                         *)
(* JavaScript runs one macrotask at a time: an action of this model is one *)
(* macrotask, that is a call made by the UI up to its first network await, *)
(* or the arrival of a network response together with every continuation   *)
(* (interceptor, ApiClient method, userApi / AuthProvider caller) that     *)
(* runs before the next network await.                                     *)
(***************************************************************************)
EXTENDS Integers, Sequences, FiniteSets, TLC

\* ------------------------------------------------------------- bounds
MaxReq == 2       \* operations that may await the network at the same time
MaxTok == 2       \* credential pairs the server issues in one run
MaxTicks == 1     \* clock advances of TickMs in one run
MaxBody == 2      \* distinct truthy response bodies the server may send
MaxLoads == 1     \* page reloads in one run
MaxOps == 4       \* operations the pages start in one run

\* ------------------------------------------------------------- strings
\* A string is [kind, id, pad]: pad says that it carries leading or trailing
\* whitespace, which String.prototype.trim removes.
Str(k, i, p) == [kind |-> k, id |-> i, pad |-> p]
\* "no value": what localStorage.getItem returns for a missing key (null).
NoStr == Str("null", 0, FALSE)
\* String(undefined): what localStorage.setItem stores for an undefined value.
UndefinedStr == Str("undefined", 0, FALSE)

Trim(s) == [s EXCEPT !.pad = FALSE]

\* ------------------------------------------------------------- localStorage
StorageKeys == {"accessToken", "refreshToken", "username"}

getItem(s, k) == IF k \in DOMAIN s THEN s[k] ELSE NoStr
setItem(s, k, v) == [x \in DOMAIN s \cup {k} |-> IF x = k THEN v ELSE s[x]]
removeItem(s, k) == [x \in DOMAIN s \ {k} |-> s[x]]
Has(s, k) == k \in DOMAIN s

EmptyStorage == [x \in {} |-> NoStr]

\* ------------------------------------------------------------- JSON values
\* Response bodies are integers: 0 stands for the falsy JSON values, 1..MaxBody
\* for truthy ones (objects, arrays, ...).  JNull is JavaScript's null.
JNull == -1
Bodies == 1..MaxBody
Truthy(v) == v > 0

\* ------------------------------------------------------------- WeatherCache
\* A params object is the sequence of its <<name, value>> pairs in insertion
\* order.  Names are ranked by their place in UTF-16 code unit order.
ParamNames == <<"city_id", "city_name", "lat", "lon", "zip_code">>
Rank(n) == CHOOSE i \in 1..Len(ParamNames) : ParamNames[i] = n

\* Object.keys(params)
ObjectKeys(params) == [i \in 1..Len(params) |-> params[i][1]]

\* params[key]
Lookup(params, key) ==
  LET i == CHOOSE j \in 1..Len(params) : params[j][1] = key IN params[i][2]

\* Array.prototype.sort() without a comparator: ascending code unit order.
RECURSIVE InsertSorted(_, _)
InsertSorted(k, s) ==
  IF s = <<>> THEN <<k>>
  ELSE IF Rank(k) <= Rank(Head(s)) THEN <<k>> \o s
  ELSE <<Head(s)>> \o InsertSorted(k, Tail(s))

RECURSIVE SortKeys(_)
SortKeys(s) == IF s = <<>> THEN <<>> ELSE InsertSorted(Head(s), SortKeys(Tail(s)))

NoSortKeys(s) == s

\* .sort() of generateKey
SortedKeys(s) == SortKeys(s)

\* .reduce((result, key) => { result[key] = params[key]; return result }, {})
RECURSIVE ReduceToObject(_, _, _)
ReduceToObject(keys, params, result) ==
  IF keys = <<>> THEN result
  ELSE ReduceToObject(Tail(keys), params,
                      Append(result, <<Head(keys), Lookup(params, Head(keys))>>))

\* `${endpoint}:${JSON.stringify(sortedParams)}`: JSON.stringify writes the
\* properties in the object's own order.
generateKey(endpoint, params) ==
  <<endpoint, ReduceToObject(SortedKeys(ObjectKeys(params)), params, <<>>)>>

\* new WeatherCache(): maxAge of the generic GET cache, in milliseconds
CacheMaxAge == 10 * 60 * 1000

EmptyCache ==
  [k \in {} |-> [data |-> JNull, timestamp |-> 0, owner |-> "anon",
                 preUpdate |-> FALSE]]

\* WeatherCache.get, line 163: the entry is too old to be served.
ExpiredNever(age, maxAge) == FALSE
Expired(age, maxAge) == age > maxAge

\* WeatherCache.get as a pair: the value returned and the map afterwards.
\* `owner` is a history field, not program state: "anon" when the entry was
\* stored while nobody was logged in, "live" when it was stored during the
\* session that is going on, "ended" when that session has since been ended
\* by a completed logout.  `preUpdate` is a history field as well: the entry
\* holds preferences stored before an updatePreferences call that has since
\* completed with other preferences.
CacheLookup(c, endpoint, params, t) ==
  LET key == generateKey(endpoint, params) IN
  IF key \notin DOMAIN c
  THEN [data |-> JNull, owner |-> "anon", preUpdate |-> FALSE, cache |-> c]
  ELSE IF Expired(t - c[key].timestamp, CacheMaxAge)
       THEN [data |-> JNull, owner |-> "anon", preUpdate |-> FALSE,
             cache |-> [k \in DOMAIN c \ {key} |-> c[k]]]
       ELSE [data |-> c[key].data, owner |-> c[key].owner,
             preUpdate |-> c[key].preUpdate, cache |-> c]

\* WeatherCache.set
CacheStore(c, endpoint, params, data, t, who) ==
  LET key == generateKey(endpoint, params) IN
  [k \in DOMAIN c \cup {key} |->
     IF k = key
     THEN [data |-> data, timestamp |-> t, owner |-> who, preUpdate |-> FALSE]
     ELSE c[k]]

\* ------------------------------------------------------------- server answers
\* An HTTP exchange ends with a response (status > 0) or without one
\* (status = 0: the host was unreachable, or the timeout ran out).
Resp(st, b, d, c) == [status |-> st, body |-> b, detail |-> d, code |-> c]

\* the 401 of the API: the access token was not accepted
Unauthorized == Resp(401, JNull, "Could not validate credentials", "ERR_BAD_REQUEST")

ApiResponses ==
  {Resp(200, b, "", "") : b \in Bodies}
    \cup {Unauthorized,
          Resp(500, JNull, "", "ERR_BAD_RESPONSE"),
          Resp(0, JNull, "", "ERR_NETWORK"),
          Resp(0, JNull, "", "ECONNABORTED")}

\* What POST /v1/login and POST /v1/refresh may answer; n numbers the pair.
TokenResp(sh, a, r) == [shape |-> sh, access |-> a, refresh |-> r]
NoPair == TokenResp("none", NoStr, NoStr)
TokenFailures ==
  {TokenResp("no_access", NoStr, NoStr),
   TokenResp("reject", NoStr, NoStr),
   TokenResp("network", NoStr, NoStr)}
TokenGrants(n) ==
  {TokenResp("pair", Str("access", n, p), Str("refresh", n, p)) : p \in BOOLEAN}
    \cup {TokenResp("no_refresh", Str("access", n, FALSE), NoStr)}

\* The response a rejected token request carries.
TokenErrorResp(tr) ==
  IF tr.shape = "reject"
  THEN Resp(401, JNull, "Invalid refresh token", "ERR_BAD_REQUEST")
  ELSE Resp(0, JNull, "", "ERR_NETWORK")

\* ------------------------------------------------------------- errors
Err(t, m, r) == [type |-> t, msg |-> m, status |-> r.status, code |-> r.code]
NoResp == Resp(0, JNull, "", "")
NoErr == Err("none", "", NoResp)
\* The error axios rejects with: it carries the response and the code.
AxiosError(r) == Err("AxiosError", r.detail, r)
\* new Error(message) / a TypeError raised by the runtime
JsError(m) == Err("Error", m, NoResp)
TypeError == Err("TypeError", "Cannot read properties of undefined", NoResp)

\* ApiClient.handleError
handleError(r) ==
  IF r.code = "ERR_NETWORK"
  THEN JsError("Oops! Cannot connect to the server right now. Try again later.")
  ELSE IF r.status > 0
  THEN JsError(IF r.detail # "" THEN r.detail
               ELSE "Sorry, could not complete the request.")
  ELSE IF r.code # ""
  THEN JsError("Something happened to your request. Try again later.")
  ELSE JsError("Oops! Something went wrong. Try again later.")

\* What a call hands to its caller: a value, or a thrown error.
Ok(v) == [ok |-> TRUE, data |-> v, err |-> NoErr]
Fail(e) == [ok |-> FALSE, data |-> JNull, err |-> e]

\* ------------------------------------------------------------- ApiClient
\* an interceptor that attaches the other token of the pair
RequestInterceptorWrongToken(s) ==
  IF Has(s, "refreshToken") THEN Trim(getItem(s, "refreshToken")) ELSE NoStr
\* Request interceptor: the Authorization header of an outgoing request.
RequestInterceptor(s) ==
  IF Has(s, "accessToken") THEN Trim(getItem(s, "accessToken")) ELSE NoStr

\* Response interceptor, line 269: refresh on a 401 of a request not yet retried.
NeedsRefresh(status, retry) == status = 401 /\ ~retry

\* Response interceptor, lines 321-322.
PersistPairNoRefresh(s, a, r) == setItem(s, "accessToken", Trim(a))
PersistPair(s, a, r) ==
  setItem(setItem(s, "accessToken", Trim(a)), "refreshToken", Trim(r))

\* Response interceptor, lines 337-338.
KeepTokens(s) == s
ClearTokens(s) == removeItem(removeItem(s, "accessToken"), "refreshToken")

\* Response interceptor, lines 311-341: what follows the answer `tr` of the
\* refresh call.  ok: the original request is replayed; otherwise err is thrown.
RefreshOutcome(s, tr) ==
  IF tr.shape \in {"reject", "network"}
  THEN [ok |-> FALSE, storage |-> ClearTokens(s),
        err |-> AxiosError(TokenErrorResp(tr))]
  ELSE IF tr.access = NoStr
  THEN [ok |-> FALSE, storage |-> ClearTokens(s),
        err |-> JsError("Invalid token response from server")]
  ELSE IF tr.refresh = NoStr
       \* accessToken is written, then refresh_token.trim() throws
  THEN [ok |-> FALSE,
        storage |-> ClearTokens(setItem(s, "accessToken", Trim(tr.access))),
        err |-> TypeError]
  ELSE [ok |-> TRUE, storage |-> PersistPair(s, tr.access, tr.refresh),
        err |-> NoErr]

\* Response interceptor, line 329: the replay is sent with the global axios,
\* which has no interceptors, not with this.client.
ReplayIntercepted == FALSE

\* One call of ApiClient.get / post / delete.  nSent, nRefresh, path, pair,
\* body and preUpdate are history fields: how often the request and the refresh call were
\* sent, the answers seen, the answer of the refresh call and the body of the
\* last answer to the request.  page and seq name the continuation that awaits
\* the call: "profile" (fetchUserData of ProfilePage), "search" (the seq-th
\* handleSearch), "" (any other caller).
IdleReq ==
  [pc |-> "idle", method |-> "", endpoint |-> "", params |-> <<>>,
   useCache |-> FALSE, retry |-> FALSE, auth |-> NoStr, rtok |-> NoStr,
   pair |-> NoPair, caller |-> "", t0 |-> 0, nSent |-> 0, nRefresh |-> 0,
   path |-> <<>>, body |-> JNull, preUpdate |-> FALSE, page |-> "", seq |-> 0]

\* A replay sent through this.client as a request of its own would meet the
\* response interceptor again, not marked as retried.
ReplayAsNew(r, a) ==
  [r EXCEPT !.pc = "sent", !.retry = FALSE, !.auth = Trim(a), !.nSent = @ + 1]
\* Response interceptor, lines 325-329: the Authorization header of the
\* original request is rewritten and the request is sent again, with axios.
Replay(r, a) == [r EXCEPT !.pc = "replaying", !.auth = Trim(a), !.nSent = @ + 1]

Slots == 1..MaxReq

\* ------------------------------------------------------------- userApi
\* userApi._preferencesCache.maxAge, in milliseconds
PrefMaxAge == 5 * 60 * 1000
EmptyPrefCache ==
  [data |-> JNull, timestamp |-> 0, owner |-> "anon", preUpdate |-> FALSE]

\* userApi.getPreferences, lines 608-609: the cached preferences are served.
PrefFresh(pc, t) == Truthy(pc.data) /\ t - pc.timestamp < PrefMaxAge

ProfileEndpoint == "/v1/user/me"
PrefEndpoint == "/v1/user/preferences"
LogoutEndpoint == "/v1/logout"

\* ------------------------------------------------------------- docSchemaApi
\* docSchemaApi._schemaCacheMaxAge, in milliseconds
SchemaMaxAge == 30 * 60 * 1000
EmptySchemaCache == [data |-> JNull, timestamp |-> 0]

\* docSchemaApi.getOpenAPISchema, lines 440-441: the cached schema is served.
SchemaFresh(sc, t) == Truthy(sc.data) /\ t - sc.timestamp < SchemaMaxAge

\* a getOpenAPISchema call awaiting its request; t0 is `now` of line 439
IdleSchemaOp == [pc |-> "idle", t0 |-> 0]

\* ------------------------------------------------------------- AuthProvider
\* what the user types into the login form
Usernames == {Str("name", 1, TRUE)}

\* AuthProvider.login, lines 86-105, given the answer `tr` of POST /v1/login
\* (authApi.login turns a rejected request into a thrown Error): the storage
\* and the user afterwards, and the error caught (NoErr when login returns true).
LoginOutcome(s, usr, tr, username) ==
  IF tr.shape \in {"reject", "network"}
  THEN [storage |-> s, user |-> usr,
        err |-> JsError(IF tr.shape = "reject" THEN TokenErrorResp(tr).detail
                        ELSE "Login failed")]
  ELSE IF tr.access = NoStr
  THEN [storage |-> s, user |-> usr,
        err |-> JsError("Invalid response from server. Missing access token.")]
  ELSE IF tr.refresh = NoStr
       \* accessToken is written, then data.refresh_token.trim() throws
  THEN [storage |-> setItem(s, "accessToken", Trim(tr.access)), user |-> usr,
        err |-> TypeError]
  ELSE [storage |-> setItem(setItem(setItem(s, "accessToken", Trim(tr.access)),
                                    "refreshToken", Trim(tr.refresh)),
                            "username", Trim(username)),
        user |-> Trim(username), err |-> NoErr]

\* AuthProvider.logout, lines 124-126 / refreshToken, lines 158-160 /
\* checkAuth, lines 44-46 and 51-53.
ClearSession(s) ==
  removeItem(removeItem(removeItem(s, "accessToken"), "refreshToken"), "username")

\* AuthProvider.logout when authApi.logout throws: without `finally` the local
\* logout would be skipped.
LogoutFinallyBug(s, res) == IF res.ok THEN ClearSession(s) ELSE s
\* AuthProvider.logout, lines 122-126: the storage after the finally block,
\* whatever authApi.logout handed back.
LogoutFinally(s, res) == ClearSession(s)

\* localStorage.setItem(key, value) of a value that may be undefined
Stored(v) == IF v = NoStr THEN UndefinedStr ELSE v

\* a catch block that removes the tokens and keeps the username and the user
AuthRefreshKeepsUser(s, usr, tr) ==
  IF tr.shape \in {"reject", "network"}
  THEN [storage |-> ClearTokens(s), user |-> usr,
        res |-> Fail(JsError("Token refresh failed"))]
  ELSE [storage |-> setItem(setItem(s, "accessToken", Stored(tr.access)),
                            "refreshToken", Stored(tr.refresh)),
        user |-> usr, res |-> Ok(1)]

\* AuthProvider.refreshToken, lines 147-163, given the answer `tr` of
\* POST /v1/refresh (authApi.refreshToken turns a rejected request into a
\* thrown Error).
AuthRefreshOutcome(s, usr, tr) ==
  IF tr.shape \in {"reject", "network"}
  THEN [storage |-> ClearSession(s), user |-> NoStr,
        res |-> Fail(JsError(IF tr.shape = "reject" THEN TokenErrorResp(tr).detail
                             ELSE "Token refresh failed"))]
  ELSE [storage |-> setItem(setItem(s, "accessToken", Stored(tr.access)),
                            "refreshToken", Stored(tr.refresh)),
        user |-> usr, res |-> Ok(1)]

\* AuthProvider.refreshToken, lines 141-144 and 154-162: no refresh token stored.
AuthRefreshNoToken(s) ==
  [storage |-> ClearSession(s), user |-> NoStr,
   res |-> Fail(JsError("No refresh token available"))]

\* checkAuth, lines 30-31: what decoding the stored access token gives: no
\* payload (the catch block of line 38 runs), or its expiry claim, exp * 1000,
\* in milliseconds.  The payload of a token is the server's; the model draws it.
GraceMs == 5 * 60 * 1000
ExpClaims == {GraceMs - 1000, GraceMs, 4 * GraceMs}
DecodeOutcomes ==
  {[ok |-> FALSE, exp |-> 0]} \cup {[ok |-> TRUE, exp |-> e] : e \in ExpClaims}

\* checkAuth, line 34: the token has expired or expires within 5 minutes.
ProactiveRefresh(t, expiration) == t > expiration - GraceMs

IdleOp == [pc |-> "idle", username |-> NoStr, rtok |-> NoStr, caller |-> ""]

\* ------------------------------------------------------------- ProfilePage
\* profile/Page.jsx.  retryCount is the state of the component; closure is the
\* retryCount that fetchUserData reads: the function is created by the effect
\* of lines 36-136, whose dependencies are [user, navigate, logout,
\* refreshToken], so it sees the retryCount of the render in which the effect
\* ran, also when setTimeout calls it again.
\* pc: "unmounted"; "profile" / "preferences" / "refresh": fetchUserData awaits
\* getProfile / getPreferences / refreshToken; "delay": it awaits the 1 s
\* timeout of line 76; "timer": setTimeout(fetchUserData) is pending; "idle".
MAX_RETRIES == 5
\* setRetryCount counts without limit; the code only compares retryCount with
\* MAX_RETRIES, so every count above MAX_RETRIES is kept as MAX_RETRIES + 1
RetryCap == MAX_RETRIES + 1
\* the profile of lines 43-47 and the preferences of lines 50-54 / 103-107
FallbackProfile == -2
DefaultPreferences == -3
TroubleMsg == "We're having trouble connecting to the server."

InitProfilePage ==
  [pc |-> "unmounted", retryCount |-> 0, closure |-> 0, loading |-> TRUE,
   error |-> "", profile |-> JNull, preferences |-> JNull]

\* setRetryCount(prev => prev + 1)
SetRetryCount(p) ==
  [p EXCEPT !.retryCount = IF @ < RetryCap THEN @ + 1 ELSE @]

\* the finally block, lines 120-124
FetchFinally(p) ==
  IF p.closure >= MAX_RETRIES THEN [p EXCEPT !.loading = FALSE] ELSE p

\* lines 38-60: the retries are used up
ShowFallback(p, s) ==
  [p EXCEPT !.profile = IF Has(s, "username") THEN FallbackProfile ELSE @,
            !.preferences = IF Has(s, "username") THEN DefaultPreferences ELSE @,
            !.error = TroubleMsg, !.loading = FALSE, !.pc = "idle"]

\* lines 77-84: refreshToken() has thrown
RefreshFailed(p) ==
  FetchFinally([SetRetryCount(p) EXCEPT !.pc = "timer"])

\* lines 109-119: getProfile() has thrown
ProfileFailed(p) ==
  FetchFinally([SetRetryCount(p) EXCEPT
                  !.pc = IF p.closure < MAX_RETRIES THEN "timer" ELSE "idle"])

\* lines 96-111: getPreferences() has returned or thrown
PreferencesDone(p, res) ==
  FetchFinally([p EXCEPT !.preferences = IF res.ok THEN res.data
                                         ELSE DefaultPreferences,
                         !.error = "", !.retryCount = 0, !.pc = "idle"])

\* ------------------------------------------------------------- weather search
\* context/WeatherContext: initialState and weatherReducer (the cases that
\* handleSearch dispatches); error "" stands for null.
InitWeather ==
  [weatherData |-> JNull, loading |-> FALSE, error |-> "", hasSearched |-> FALSE]

weatherReducer(state, type, payload) ==
  CASE type = "SET_LOADING" -> [state EXCEPT !.loading = payload]
    [] type = "SET_WEATHER_DATA" ->
         [state EXCEPT !.weatherData = payload, !.error = ""]
    [] type = "SET_ERROR" ->
         [state EXCEPT !.error = payload, !.weatherData = JNull]
    [] type = "SET_HAS_SEARCHED" -> [state EXCEPT !.hasSearched = payload]
    [] OTHER -> state

\* handleSearch, lines 11-13
SearchStart(w) ==
  weatherReducer(weatherReducer(weatherReducer(w, "SET_ERROR", ""),
                                "SET_LOADING", TRUE),
                 "SET_HAS_SEARCHED", TRUE)

\* handleSearch, lines 16-26: getForecast has returned or thrown
SearchDone(w, res) ==
  weatherReducer(
    IF res.ok THEN weatherReducer(w, "SET_WEATHER_DATA", res.data)
    ELSE weatherReducer(w, "SET_ERROR",
                        IF res.err.msg # "" THEN res.err.msg
                        ELSE "An error occurred while fetching weather data"),
    "SET_LOADING", FALSE)

\* The values of a search parameter: 0 is the number 0, a positive integer a
\* non-zero number or a non-empty string.
EmptyText == -2
Undefined == -3
\* the parameters of handleSearch, in the order getForecast reads them, and
\* the names they are sent under
SearchNames == <<"lat", "lon", "zipCode", "cityName", "cityId">>
WireNames == <<"lat", "lon", "zip_code", "city_name", "city_id">>

\* params.name: undefined when the object has no such property
Prop(params, name) ==
  IF \E j \in 1..Len(params) : params[j][1] = name
  THEN Lookup(params, name) ELSE Undefined

\* weatherApi.getForecast, lines 472-479: filteredParams
RECURSIVE FilterParams(_, _, _)
FilterParams(params, k, filtered) ==
  IF k > Len(SearchNames) THEN filtered
  ELSE FilterParams(params, k + 1,
                    IF Truthy(Prop(params, SearchNames[k]))
                    THEN Append(filtered, <<WireNames[k], Prop(params, SearchNames[k])>>)
                    ELSE filtered)

filteredParams(params) == FilterParams(params, 1, <<>>)

\* ------------------------------------------------------------- state
VARIABLES
  storage,     \* localStorage: accessToken, refreshToken, username
  user,        \* AuthProvider state `user` (its username, NoStr for null)
  isLoading,   \* AuthProvider state `isLoading`
  cache,       \* apiClient.cache.cache: the generic GET cache
  prefCache,   \* userApi._preferencesCache
  now,         \* Date.now()
  req,         \* the ApiClient calls in flight, by slot
  loginOp,     \* AuthProvider.login awaiting authApi.login
  refreshOp,   \* AuthProvider.refreshToken awaiting authApi.refreshToken
  boot,        \* "mount": before checkAuth; "checking": checkAuth awaits; "ready"
  issued,      \* credential pairs the server has issued
  loads,       \* page loads after the first
  ops,         \* operations the pages have started
  last,        \* what the step just taken handed to its caller (history)
  schemaCache, \* docSchemaApi._schemaCache and _schemaCacheTimestamp
  schemaOp,    \* docSchemaApi.getOpenAPISchema awaiting axios.get
  profilePage, \* ProfilePage: its state and where fetchUserData stands
  weather,     \* WeatherProvider: the state of weatherReducer
  searches     \* the handleSearch calls made, in order (history)

\* the state of the pages and services outside ApiClient, userApi, AuthProvider
docVars == <<schemaCache, schemaOp>>
searchVars == <<weather, searches>>
pageVars == <<docVars, profilePage, searchVars>>

vars == <<storage, user, isLoading, cache, prefCache, now, req, loginOp,
          refreshOp, boot, issued, loads, ops, last, pageVars>>

\* op: the operation that ended; res: what its caller got; path, pair, body,
\* nSent, nRefresh: the history fields of the ApiClient call behind it; owner:
\* the owner of the cache entry the value came from ("" when it came from the
\* network).
Obs(op, res, call, owner) ==
  [op |-> op, res |-> res, path |-> call.path, pair |-> call.pair,
   body |-> call.body, nSent |-> call.nSent, nRefresh |-> call.nRefresh,
   owner |-> owner, preUpdate |-> call.preUpdate]
NoObs == Obs("none", Ok(JNull), IdleReq, "")

TickMs == 5 * 60 * 1000

Init ==
  /\ storage = EmptyStorage
  /\ user = NoStr
  /\ isLoading = TRUE
  /\ cache = EmptyCache
  /\ prefCache = EmptyPrefCache
  /\ now = 0
  /\ req = [i \in Slots |-> IdleReq]
  /\ loginOp = IdleOp
  /\ refreshOp = IdleOp
  /\ boot = "mount"
  /\ issued = 0
  /\ loads = 0
  /\ ops = 0
  /\ last = NoObs
  /\ schemaCache = EmptySchemaCache
  /\ schemaOp = IdleSchemaOp
  /\ profilePage = InitProfilePage
  /\ weather = InitWeather
  /\ searches = <<>>

\* ------------------------------------------------------------- helpers
FreeSlots == {i \in Slots : req[i].pc = "idle"}
\* operations awaiting the network: ApiClient calls, login, refreshToken
InFlight ==
  Cardinality(Slots \ FreeSlots) + (IF loginOp.pc = "wait" THEN 1 ELSE 0)
    + (IF refreshOp.pc = "wait" THEN 1 ELSE 0)
CanStart == InFlight < MaxReq /\ ops < MaxOps
\* a new call takes the lowest free slot (slots are interchangeable)
NextSlot(i) == CanStart /\ i \in FreeSlots /\ \A j \in FreeSlots : i <= j
Running == boot # "mount"

Tag(resp) ==
  IF resp.status = 200 THEN "200"
  ELSE IF resp.status = 401 THEN "401"
  ELSE IF resp.status = 500 THEN "500"
  ELSE resp.code

\* history: who a value stored now belongs to
Owner(usr) == IF usr = NoStr THEN "anon" ELSE "live"
\* history: an updatePreferences has completed with the value v; cached
\* preferences other than v were stored before it
MarkPreUpdate(c, v) ==
  [k \in DOMAIN c |->
     IF k[1] = PrefEndpoint THEN [c[k] EXCEPT !.preUpdate = (c[k].data # v)]
     ELSE c[k]]
\* history: the session that stored the live entries has ended
Ended(e) == IF e.owner = "live" THEN [e EXCEPT !.owner = "ended"] ELSE e
MarkEnded(c) == [k \in DOMAIN c |-> Ended(c[k])]

\* Response interceptor, lines 275-280 and 330-340: a 401 with no refresh token
\* stored throws inside the try block, so the catch block clears the tokens and
\* rejects with the Error thrown.
MissingRefreshTokenPropagates(s, resp) ==
  [res |-> Fail(handleError(resp)), storage |-> s]
MissingRefreshToken(s, resp) ==
  [res |-> Fail(JsError("No refresh token available")), storage |-> ClearTokens(s)]

\* What the arrival of the answer `resp` does to the call `r` (response
\* interceptor, lines 260-345, then the await in get / post / delete).
\* intercepted: the answer passes the response interceptor of this.client.
\* next = "done": res goes to the caller; "refreshing": the refresh call is sent.
OnResponse(r, s, resp, intercepted) ==
  LET r1 == [r EXCEPT !.path = Append(@, Tag(resp)), !.body = resp.body] IN
  IF resp.status = 200
  THEN [next |-> "done", res |-> Ok(resp.body), storage |-> s, r |-> r1]
  ELSE IF ~intercepted
  THEN [next |-> "done", res |-> Fail(AxiosError(resp)), storage |-> s, r |-> r1]
  ELSE IF NeedsRefresh(resp.status, r.retry)
  THEN IF ~Has(s, "refreshToken")
       THEN [next |-> "done", res |-> MissingRefreshToken(s, resp).res,
             storage |-> MissingRefreshToken(s, resp).storage,
             r |-> [r1 EXCEPT !.retry = TRUE]]
       ELSE [next |-> "refreshing", res |-> Ok(JNull), storage |-> s,
             r |-> [r1 EXCEPT !.retry = TRUE, !.pc = "refreshing",
                              !.rtok = Trim(getItem(s, "refreshToken")),
                              !.nRefresh = @ + 1]]
  ELSE [next |-> "done", res |-> Fail(handleError(resp)), storage |-> s, r |-> r1]

\* a cache.set after every successful call, whatever its method and useCache
AfterGetAlways(c, r, res, t, who) ==
  IF res.ok THEN CacheStore(c, r.endpoint, r.params, res.data, t, who) ELSE c
\* ApiClient.get, lines 386-388
AfterGet(c, r, res, t, who) ==
  IF res.ok /\ r.method = "get" /\ r.useCache
  THEN CacheStore(c, r.endpoint, r.params, res.data, t, who)
  ELSE c

\* fetchUserData, lines 91-97: getProfile has returned `data` (from the cache
\* or from the server) while the generic cache is c1 and localStorage s1;
\* setProfile, then userApi.getPreferences up to its network await (lines
\* 603-617 of apiService), in slot i.
ProfileLoaded(i, data, c1, s1, p) ==
  LET p1 == [p EXCEPT !.profile = data]
      look == CacheLookup(c1, PrefEndpoint, <<>>, now)
  IN
  IF PrefFresh(prefCache, now)
  THEN /\ cache' = c1
       /\ prefCache' = prefCache
       /\ req' = [req EXCEPT ![i] = IdleReq]
       /\ profilePage' = PreferencesDone(p1, Ok(prefCache.data))
  ELSE /\ cache' = look.cache
       /\ IF Truthy(look.data)
          THEN /\ prefCache' = [data |-> look.data, timestamp |-> now,
                                owner |-> look.owner, preUpdate |-> look.preUpdate]
               /\ req' = [req EXCEPT ![i] = IdleReq]
               /\ profilePage' = PreferencesDone(p1, Ok(look.data))
          ELSE /\ prefCache' = prefCache
               /\ req' = [req EXCEPT ![i] =
                            [IdleReq EXCEPT !.pc = "sent", !.method = "get",
                                            !.endpoint = PrefEndpoint,
                                            !.useCache = TRUE,
                                            !.caller = "getPreferences",
                                            !.page = "profile", !.t0 = now,
                                            !.nSent = 1,
                                            !.auth = RequestInterceptor(s1)]]
               /\ profilePage' = [p1 EXCEPT !.pc = "preferences"]

\* The continuation of the page that awaited the call r1, which ended with
\* `res`: fetchUserData (lines 109-124, or 98-124 after getPreferences) or
\* handleSearch (lines 16-26).
PageResume(res, r1) ==
  IF r1.page = "profile"
  THEN /\ profilePage' = IF r1.caller = "getPreferences"
                          THEN PreferencesDone(profilePage, res)
                          ELSE ProfileFailed(profilePage)
       /\ UNCHANGED <<docVars, searchVars>>
  ELSE IF r1.page = "search"
  THEN /\ weather' = SearchDone(weather, res)
       /\ searches' = [searches EXCEPT ![r1.seq].done = TRUE, ![r1.seq].res = res]
       /\ UNCHANGED <<docVars, profilePage>>
  ELSE UNCHANGED pageVars

\* The call in slot i hands `res` to its caller, whose continuation runs.
\* s1: the storage the interceptor left; r1: the call's record at its end.
Finish(i, res, s1, r1) ==
  LET c1 == AfterGet(cache, r1, res, now, Owner(user)) IN
  /\ last' = Obs(r1.caller, res, r1, "")
  /\ IF r1.page = "profile" /\ r1.caller = "app" /\ res.ok
     THEN /\ ProfileLoaded(i, res.data, c1, s1, profilePage)
          /\ storage' = s1
          /\ UNCHANGED <<user, isLoading, docVars, searchVars>>
     ELSE /\ req' = [req EXCEPT ![i] = IdleReq]
          /\ PageResume(res, r1)
          /\ IF r1.caller = "logout"
             THEN \* AuthProvider.logout, lines 119-135
                  /\ storage' = LogoutFinally(s1, res)
                  /\ prefCache' = EmptyPrefCache
                  /\ cache' = MarkEnded(c1)
                  /\ user' = NoStr
                  /\ isLoading' = FALSE
             ELSE /\ storage' = s1
                  /\ cache' = IF r1.caller = "updatePreferences" /\ res.ok
                              THEN MarkPreUpdate(c1, res.data) ELSE c1
                  /\ prefCache' =
                       IF r1.caller = "getPreferences" /\ res.ok
                       THEN \* userApi.getPreferences, lines 619-620
                            [data |-> res.data, timestamp |-> r1.t0,
                             owner |-> Owner(user), preUpdate |-> FALSE]
                       ELSE IF r1.caller = "updatePreferences" /\ res.ok
                       THEN \* userApi.updatePreferences, lines 637-638
                            [data |-> res.data, timestamp |-> now,
                             owner |-> Owner(user), preUpdate |-> FALSE]
                       ELSE prefCache
                  /\ UNCHANGED <<user, isLoading>>
  /\ UNCHANGED <<now, loginOp, refreshOp, boot, loads>>

\* The call in slot i goes on to its next network await.
Continue(i, s1, r1) ==
  /\ UNCHANGED pageVars
  /\ req' = [req EXCEPT ![i] = r1]
  /\ storage' = s1
  /\ last' = NoObs
  /\ UNCHANGED <<user, isLoading, cache, prefCache, now, loginOp, refreshOp,
                 boot, loads>>

\* ------------------------------------------------------------- ApiClient calls
\* ApiClient.get(endpoint, {}, useCache) up to the network await, lines 367-382.
ClientGet(i, ep, uc, caller) ==
  LET look == CacheLookup(cache, ep, <<>>, now)
      call == [IdleReq EXCEPT !.method = "get", !.endpoint = ep, !.useCache = uc,
                              !.caller = caller, !.t0 = now]
  IN
  /\ cache' = IF uc THEN look.cache ELSE cache
  /\ IF uc /\ Truthy(look.data)
     THEN /\ req' = req
          /\ last' = Obs(caller, Ok(look.data),
                         [call EXCEPT !.path = <<"cache">>,
                                      !.preUpdate = look.preUpdate],
                         look.owner)
          /\ prefCache' =
               IF caller = "getPreferences"
               THEN [data |-> look.data, timestamp |-> now, owner |-> look.owner,
                     preUpdate |-> look.preUpdate]
               ELSE prefCache
     ELSE /\ req' = [req EXCEPT ![i] =
                       [call EXCEPT !.pc = "sent", !.nSent = 1,
                                    !.auth = RequestInterceptor(storage)]]
          /\ last' = NoObs
          /\ prefCache' = prefCache
  /\ UNCHANGED <<storage, user, isLoading, now, loginOp, refreshOp, boot,
                 issued, loads>>

\* userApi.getProfile and any other cached or uncached GET made by a page
ApiGet(i, uc) ==
  /\ UNCHANGED pageVars
  /\ ops' = ops + 1
  /\ Running
  /\ NextSlot(i)
  /\ ClientGet(i, ProfileEndpoint, uc, "app")

\* ApiClient.post / ApiClient.delete (userApi.updateProfile, ...), lines 397-421
ApiSend(i, m) ==
  /\ UNCHANGED pageVars
  /\ ops' = ops + 1
  /\ Running
  /\ NextSlot(i)
  /\ req' = [req EXCEPT ![i] =
               [IdleReq EXCEPT !.pc = "sent", !.method = m,
                               !.endpoint = ProfileEndpoint, !.caller = "app",
                               !.nSent = 1, !.auth = RequestInterceptor(storage)]]
  /\ last' = NoObs
  /\ UNCHANGED <<storage, user, isLoading, cache, prefCache, now, loginOp,
                 refreshOp, boot, issued, loads>>

\* userApi.getPreferences, lines 603-627
GetPreferences(i) ==
  /\ UNCHANGED pageVars
  /\ ops' = ops + 1
  /\ Running
  /\ NextSlot(i)
  /\ IF PrefFresh(prefCache, now)
     THEN /\ last' = Obs("getPreferences", Ok(prefCache.data),
                         [IdleReq EXCEPT !.caller = "getPreferences",
                                         !.path = <<"prefCache">>,
                                         !.preUpdate = prefCache.preUpdate],
                         prefCache.owner)
          /\ UNCHANGED <<storage, user, isLoading, cache, prefCache, now, req,
                         loginOp, refreshOp, boot, issued, loads>>
     ELSE ClientGet(i, PrefEndpoint, TRUE, "getPreferences")

\* userApi.updatePreferences up to the await of apiClient.post, lines 630-634
UpdatePreferences(i) ==
  /\ UNCHANGED pageVars
  /\ ops' = ops + 1
  /\ Running
  /\ NextSlot(i)
  /\ req' = [req EXCEPT ![i] =
               [IdleReq EXCEPT !.pc = "sent", !.method = "post",
                               !.endpoint = PrefEndpoint,
                               !.caller = "updatePreferences", !.t0 = now,
                               !.nSent = 1, !.auth = RequestInterceptor(storage)]]
  /\ last' = NoObs
  /\ UNCHANGED <<storage, user, isLoading, cache, prefCache, now, loginOp,
                 refreshOp, boot, issued, loads>>

\* The answer to the request of call i arrives.
RespondFirst(i, resp) ==
  /\ ops' = ops
  /\ req[i].pc = "sent"
  /\ issued' = issued
  /\ LET o == OnResponse(req[i], storage, resp, TRUE) IN
     IF o.next = "done" THEN Finish(i, o.res, o.storage, o.r)
     ELSE Continue(i, o.storage, o.r)

\* The answer to the refresh call of call i arrives (lines 300-341).
RespondRefresh(i, tr) ==
  /\ ops' = ops
  /\ req[i].pc = "refreshing"
  /\ issued' = IF tr \in TokenFailures THEN issued ELSE issued + 1
  /\ LET o == RefreshOutcome(storage, tr)
         r1 == [req[i] EXCEPT !.pair = tr, !.path = Append(@, tr.shape)]
     IN
     IF o.ok
     THEN Continue(i, o.storage, Replay(r1, tr.access))
     ELSE Finish(i, Fail(o.err), o.storage, r1)

\* The answer to the replayed request of call i arrives.
RespondReplay(i, resp) ==
  /\ ops' = ops
  /\ req[i].pc = "replaying"
  /\ issued' = issued
  /\ LET o == OnResponse(req[i], storage, resp, ReplayIntercepted) IN
     IF o.next = "done" THEN Finish(i, o.res, o.storage, o.r)
     ELSE Continue(i, o.storage, o.r)

\* ------------------------------------------------------------- AuthProvider
\* What the server may answer to a login or refresh request now.
TokenAnswers ==
  TokenFailures \cup (IF issued < MaxTok THEN TokenGrants(issued + 1) ELSE {})

\* AuthProvider.login up to the await of authApi.login, lines 79-86
LoginStart(u) ==
  /\ UNCHANGED pageVars
  /\ ops' = ops + 1
  /\ Running
  /\ CanStart
  /\ loginOp.pc = "idle"
  /\ loginOp' = [IdleOp EXCEPT !.pc = "wait", !.username = u]
  /\ isLoading' = TRUE
  /\ last' = NoObs
  /\ UNCHANGED <<storage, user, cache, prefCache, now, req, refreshOp, boot,
                 issued, loads>>

\* The answer to POST /v1/login arrives: AuthProvider.login, lines 86-105
LoginRespond(tr) ==
  /\ UNCHANGED pageVars
  /\ ops' = ops
  /\ loginOp.pc = "wait"
  /\ LET o == LoginOutcome(storage, user, tr, loginOp.username) IN
     /\ storage' = o.storage
     /\ user' = o.user
     /\ last' = Obs("login", IF o.err = NoErr THEN Ok(1) ELSE Fail(o.err),
                    IdleReq, "")
  /\ isLoading' = FALSE
  /\ loginOp' = IdleOp
  /\ issued' = IF tr \in TokenFailures THEN issued ELSE issued + 1
  /\ UNCHANGED <<cache, prefCache, now, req, refreshOp, boot, loads>>

\* AuthProvider.logout with a stored access token, up to the await of
\* authApi.logout (apiClient.post('/v1/logout')), lines 109-117
LogoutRemote(i) ==
  /\ UNCHANGED pageVars
  /\ ops' = ops + 1
  /\ Running
  /\ NextSlot(i)
  /\ \A j \in Slots : req[j].caller # "logout"
  /\ Has(storage, "accessToken")
  /\ req' = [req EXCEPT ![i] =
               [IdleReq EXCEPT !.pc = "sent", !.method = "post",
                               !.endpoint = LogoutEndpoint, !.caller = "logout",
                               !.nSent = 1, !.auth = RequestInterceptor(storage)]]
  /\ isLoading' = TRUE
  /\ last' = NoObs
  /\ UNCHANGED <<storage, user, cache, prefCache, now, loginOp, refreshOp, boot,
                 issued, loads>>

\* AuthProvider.logout without a stored access token: no remote call
LogoutLocal ==
  /\ UNCHANGED pageVars
  /\ ops' = ops + 1
  /\ Running
  /\ ops < MaxOps
  /\ \A j \in Slots : req[j].caller # "logout"
  /\ ~Has(storage, "accessToken")
  /\ storage' = LogoutFinally(storage, Ok(JNull))
  /\ prefCache' = EmptyPrefCache
  /\ cache' = MarkEnded(cache)
  /\ user' = NoStr
  /\ isLoading' = FALSE
  /\ last' = Obs("logout", Ok(JNull), IdleReq, "")
  /\ UNCHANGED <<now, req, loginOp, refreshOp, boot, issued, loads>>

\* AuthProvider.refreshToken called by a page (ProfilePage), lines 139-147
AuthRefreshStart ==
  /\ UNCHANGED pageVars
  /\ ops' = ops + 1
  /\ Running
  /\ CanStart
  /\ refreshOp.pc = "idle"
  /\ IF Has(storage, "refreshToken")
     THEN /\ refreshOp' = [IdleOp EXCEPT !.pc = "wait", !.caller = "app",
                                         !.rtok = Trim(getItem(storage, "refreshToken"))]
          /\ last' = NoObs
          /\ UNCHANGED <<storage, user>>
     ELSE LET o == AuthRefreshNoToken(storage) IN
          /\ storage' = o.storage
          /\ user' = o.user
          /\ last' = Obs("authRefresh", o.res, IdleReq, "")
          /\ refreshOp' = refreshOp
  /\ UNCHANGED <<isLoading, cache, prefCache, now, req, loginOp, boot, issued,
                 loads>>

\* The answer to POST /v1/refresh of AuthProvider.refreshToken arrives; when
\* checkAuth awaited it, checkAuth ends (lines 36-56).
AuthRefreshRespond(tr) ==
  /\ ops' = ops
  /\ refreshOp.pc = "wait"
  /\ LET o == AuthRefreshOutcome(storage, user, tr) IN
     /\ storage' = o.storage
     /\ user' = o.user
     /\ last' = Obs("authRefresh", o.res, IdleReq, "")
     /\ IF refreshOp.caller = "fetchUserData"
        THEN \* ProfilePage, lines 72-84
             /\ profilePage' = IF o.res.ok
                                THEN [profilePage EXCEPT !.pc = "delay"]
                                ELSE RefreshFailed(profilePage)
             /\ UNCHANGED <<docVars, searchVars>>
        ELSE UNCHANGED pageVars
  /\ refreshOp' = IdleOp
  /\ issued' = IF tr \in TokenFailures THEN issued ELSE issued + 1
  /\ isLoading' = IF refreshOp.caller = "checkAuth" THEN FALSE ELSE isLoading
  /\ boot' = IF refreshOp.caller = "checkAuth" THEN "ready" ELSE boot
  /\ UNCHANGED <<cache, prefCache, now, req, loginOp, loads>>

\* checkAuth of the mount effect, lines 14-60, up to the await of refreshToken
CheckAuth(decoded) ==
  /\ UNCHANGED pageVars
  /\ ops' = ops
  /\ boot = "mount"
  /\ IF ~Has(storage, "accessToken")
     THEN /\ isLoading' = FALSE
          /\ boot' = "ready"
          /\ last' = Obs("checkAuth", Ok(JNull), IdleReq, "")
          /\ UNCHANGED <<storage, user, refreshOp>>
     ELSE IF ~Has(storage, "username")
     THEN /\ storage' = ClearSession(storage)
          /\ isLoading' = FALSE
          /\ boot' = "ready"
          /\ last' = Obs("checkAuth", Ok(JNull), IdleReq, "")
          /\ UNCHANGED <<user, refreshOp>>
     ELSE IF ~(decoded.ok /\ ProactiveRefresh(now, decoded.exp))
     THEN /\ user' = getItem(storage, "username")
          /\ isLoading' = FALSE
          /\ boot' = "ready"
          /\ last' = Obs("checkAuth", Ok(JNull), IdleReq, "")
          /\ UNCHANGED <<storage, refreshOp>>
     ELSE IF ~Has(storage, "refreshToken")
     THEN LET o == AuthRefreshNoToken(storage) IN
          /\ storage' = o.storage
          /\ user' = o.user
          /\ isLoading' = FALSE
          /\ boot' = "ready"
          /\ last' = Obs("checkAuth", o.res, IdleReq, "")
          /\ UNCHANGED refreshOp
     ELSE /\ user' = getItem(storage, "username")
          /\ refreshOp' = [IdleOp EXCEPT !.pc = "wait", !.caller = "checkAuth",
                                         !.rtok = Trim(getItem(storage, "refreshToken"))]
          /\ boot' = "checking"
          /\ last' = NoObs
          /\ UNCHANGED <<storage, isLoading>>
  /\ UNCHANGED <<cache, prefCache, now, req, loginOp, issued, loads>>

\* The page is loaded again: memory is lost, localStorage stays.
Reload ==
  /\ ops' = ops + 1
  /\ schemaCache' = EmptySchemaCache
  /\ schemaOp' = IdleSchemaOp
  /\ profilePage' = InitProfilePage
  /\ weather' = InitWeather
  /\ searches' = <<>>
  /\ Running
  /\ ops < MaxOps
  /\ loads < MaxLoads
  /\ loads' = loads + 1
  /\ user' = NoStr
  /\ isLoading' = TRUE
  /\ cache' = EmptyCache
  /\ prefCache' = EmptyPrefCache
  /\ req' = [i \in Slots |-> IdleReq]
  /\ loginOp' = IdleOp
  /\ refreshOp' = IdleOp
  /\ boot' = "mount"
  /\ last' = NoObs
  /\ UNCHANGED <<storage, now, issued>>

\* Time passes.
Tick ==
  /\ UNCHANGED pageVars
  /\ ops' = ops
  /\ now < MaxTicks * TickMs
  /\ now' = now + TickMs
  /\ last' = NoObs
  /\ UNCHANGED <<storage, user, isLoading, cache, prefCache, req, loginOp,
                 refreshOp, boot, issued, loads>>

Next ==
  \/ \E i \in Slots, uc \in BOOLEAN : ApiGet(i, uc)
  \/ \E i \in Slots, m \in {"post", "delete"} : ApiSend(i, m)
  \/ \E i \in Slots : GetPreferences(i)
  \/ \E i \in Slots, resp \in ApiResponses : RespondFirst(i, resp)
  \/ \E i \in Slots, tr \in TokenAnswers : RespondRefresh(i, tr)
  \/ \E i \in Slots, resp \in ApiResponses : RespondReplay(i, resp)
  \/ \E u \in Usernames : LoginStart(u)
  \/ \E tr \in TokenAnswers : LoginRespond(tr)
  \/ \E i \in Slots : LogoutRemote(i)
  \/ LogoutLocal
  \/ AuthRefreshStart
  \/ \E tr \in TokenAnswers : AuthRefreshRespond(tr)
  \/ \E d \in DecodeOutcomes : CheckAuth(d)
  \/ Reload
  \/ Tick

Spec == Init /\ [][Next]_vars

\* ------------------------------------------------------------- WeatherCache alone
\* A WeatherCache driven directly: set, get and clear with parameter objects
\* built in every insertion order.  The same variables cache, now and last are
\* used; the rest of the state stays as Init leaves it.
MaxParams == 2
ForecastEndpoint == "/weather/forecast"
InputNames == {"lat", "lon", "city_name"}
ParamValues == {1, 2}
InputPairs == {<<n, v>> : n \in InputNames, v \in ParamValues}
DistinctNames(q) == \A a, b \in 1..Len(q) : a # b => q[a][1] # q[b][1]
ParamObjects ==
  UNION {{q \in [1..n -> InputPairs] : DistinctNames(q)} : n \in 0..MaxParams}

\* The instants Date.now() shows: around every multiple of maxAge.
MaxAges == 1
WcInstants ==
  {k * CacheMaxAge + e : k \in 0..MaxAges, e \in {-1, 0, 1}} \cap Nat

Range(q) == {q[a] : a \in 1..Len(q)}
SamePairs(p, q) == Len(p) = Len(q) /\ Range(p) = Range(q)

sessionVars == <<storage, user, isLoading, prefCache, req, loginOp, refreshOp,
                 boot, issued, loads, ops>>

\* cache.set(endpoint, params, data); the cache driven here keeps one entry
\* (the entries of a Map do not affect each other)
WcSet(p, v) ==
  /\ UNCHANGED pageVars
  /\ DOMAIN cache \subseteq {generateKey(ForecastEndpoint, p)}
  /\ cache' = CacheStore(cache, ForecastEndpoint, p, v, now, "anon")
  /\ last' = [NoObs EXCEPT !.op = "cacheSet", !.res = Ok(v), !.path = p]
  /\ UNCHANGED <<now, sessionVars>>

\* cache.get(endpoint, params); history: body is the data of the entry the
\* call found in the map (JNull when it found none)
WcGet(q) ==
  /\ UNCHANGED pageVars
  /\ LET look == CacheLookup(cache, ForecastEndpoint, q, now)
         key == generateKey(ForecastEndpoint, q)
     IN
     /\ cache' = look.cache
     /\ last' = [NoObs EXCEPT !.op = "cacheGet", !.res = Ok(look.data), !.path = q,
                              !.body = IF key \in DOMAIN cache THEN cache[key].data
                                       ELSE JNull]
  /\ UNCHANGED <<now, sessionVars>>

\* cache.clear()
WcClear ==
  /\ UNCHANGED pageVars
  /\ cache # EmptyCache
  /\ cache' = EmptyCache
  /\ last' = NoObs
  /\ UNCHANGED <<now, sessionVars>>

\* Date.now() moves on to a later instant.
WcTick(t) ==
  /\ UNCHANGED pageVars
  /\ t > now
  /\ now' = t
  /\ last' = NoObs
  /\ UNCHANGED <<cache, sessionVars>>

NextCache ==
  \/ \E p \in ParamObjects, v \in Bodies : WcSet(p, v)
  \/ \E q \in ParamObjects : WcGet(q)
  \/ WcClear
  \/ \E t \in WcInstants : WcTick(t)

SpecCache == Init /\ [][NextCache]_vars

\* ------------------------------------------------------------- ApiClient, anonymous
\* The ApiClient used by pages that need no login (the weather search): GET,
\* POST and DELETE calls with nothing in localStorage.  The server may answer
\* 200 with any JSON value, the falsy ones (false, 0, "", null) included.
FalsyBody == 0
GetResponses == ApiResponses \cup {Resp(200, FalsyBody, "", "")}

NextGet ==
  \/ \E d \in DecodeOutcomes : CheckAuth(d)
  \/ \E i \in Slots, uc \in BOOLEAN : ApiGet(i, uc)
  \/ \E i \in Slots, m \in {"post", "delete"} : ApiSend(i, m)
  \/ \E i \in Slots, resp \in GetResponses : RespondFirst(i, resp)
  \/ \E t \in WcInstants : WcTick(t)

SpecGet == Init /\ [][NextGet]_vars

\* ------------------------------------------------------------- preferences
\* The preferences of a user: login, userApi.getPreferences and
\* userApi.updatePreferences, with the clock around the maxAge of the
\* preferences cache.
MaxPrefAges == 1
PrefInstants ==
  {k * PrefMaxAge + e : k \in 0..MaxPrefAges, e \in {0, 1}}

NextPrefs ==
  \/ \E d \in DecodeOutcomes : CheckAuth(d)
  \/ \E u \in Usernames : LoginStart(u)
  \/ \E tr \in TokenAnswers : LoginRespond(tr)
  \/ \E i \in Slots : GetPreferences(i)
  \/ \E i \in Slots : UpdatePreferences(i)
  \/ \E i \in Slots, resp \in ApiResponses : RespondFirst(i, resp)
  \/ \E i \in Slots, tr \in TokenAnswers : RespondRefresh(i, tr)
  \/ \E i \in Slots, resp \in ApiResponses : RespondReplay(i, resp)
  \/ \E t \in PrefInstants : WcTick(t)

SpecPrefs == Init /\ [][NextPrefs]_vars

\* ------------------------------------------------------------- login form
\* The entry points of login: LoginPage.handleSubmit, which validates the form
\* and calls AuthProvider.login, and AuthProvider.login itself, which calls
\* authApi.login.  What is typed may be empty or blank.
EmptyStr == Str("empty", 0, FALSE)
BlankStr == Str("empty", 0, TRUE)
\* !s for a string s
IsEmpty(s) == s.kind = "empty" /\ ~s.pad
LoginNames == Usernames \cup {EmptyStr, BlankStr}
Passwords == {Str("password", 1, FALSE), EmptyStr, BlankStr}

\* LoginPage.handleSubmit, lines 26-54: the message of the form error, "" when
\* the form is valid
FormError(u, p) ==
  IF IsEmpty(Trim(u)) THEN "Username is required"
  ELSE IF IsEmpty(p) THEN "Password is required"
  ELSE ""

HandleSubmit(u, p) ==
  IF FormError(u, p) # ""
  THEN /\ Running
       /\ ops < MaxOps
       /\ ops' = ops + 1
       /\ last' = Obs("handleSubmit", Fail(JsError(FormError(u, p))), IdleReq, "")
       /\ UNCHANGED pageVars
       /\ UNCHANGED <<storage, user, isLoading, cache, prefCache, now, req,
                      loginOp, refreshOp, boot, issued, loads>>
  ELSE LoginStart(u)

NextLogin ==
  \/ \E d \in DecodeOutcomes : CheckAuth(d)
  \/ \E u \in LoginNames, p \in Passwords : HandleSubmit(u, p)
  \/ \E u \in LoginNames : LoginStart(u)
  \/ \E tr \in TokenAnswers : LoginRespond(tr)
  \/ Reload

SpecLogin == Init /\ [][NextLogin]_vars

\* ------------------------------------------------------------- cache ages
\* The three caches read at their maxAge: the generic cache of apiClient
\* (userApi.getProfile), the preferences cache and the OpenAPI schema cache of
\* the documentation page.
\* docSchemaApi.getOpenAPISchema up to the await of axios.get, lines 436-447
GetOpenAPISchema ==
  /\ Running
  /\ ops < MaxOps
  /\ ops' = ops + 1
  /\ schemaOp.pc = "idle"
  /\ IF SchemaFresh(schemaCache, now)
     THEN /\ last' = [NoObs EXCEPT !.op = "getOpenAPISchema",
                                   !.res = Ok(schemaCache.data),
                                   !.path = <<"schemaCache">>]
          /\ schemaOp' = schemaOp
     ELSE /\ last' = NoObs
          /\ schemaOp' = [pc |-> "wait", t0 |-> now]
  /\ UNCHANGED <<storage, user, isLoading, cache, prefCache, now, req, loginOp,
                 refreshOp, boot, issued, loads, schemaCache, profilePage,
                 searchVars>>

\* The answer to GET /openapi.json arrives, lines 447-458.
SchemaRespond(resp) ==
  /\ schemaOp.pc = "wait"
  /\ schemaOp' = IdleSchemaOp
  /\ IF resp.status = 200
     THEN /\ schemaCache' = [data |-> resp.body, timestamp |-> schemaOp.t0]
          /\ last' = [NoObs EXCEPT !.op = "getOpenAPISchema",
                                   !.res = Ok(resp.body), !.path = <<"200">>]
     ELSE /\ schemaCache' = schemaCache
          /\ last' = [NoObs EXCEPT !.op = "getOpenAPISchema",
                                   !.res = Fail(AxiosError(resp)),
                                   !.path = <<Tag(resp)>>]
  /\ UNCHANGED <<storage, user, isLoading, cache, prefCache, now, req, loginOp,
                 refreshOp, boot, issued, loads, ops, profilePage, searchVars>>

\* The instants Date.now() shows after 0: each maxAge.
AgeInstants == {PrefMaxAge, CacheMaxAge, SchemaMaxAge}

NextAges ==
  \/ \E d \in DecodeOutcomes : CheckAuth(d)
  \/ \E i \in Slots : ApiGet(i, TRUE)
  \/ \E i \in Slots : GetPreferences(i)
  \/ \E i \in Slots, resp \in ApiResponses : RespondFirst(i, resp)
  \/ GetOpenAPISchema
  \/ \E resp \in ApiResponses : SchemaRespond(resp)
  \/ \E t \in AgeInstants : WcTick(t)

SpecAges == Init /\ [][NextAges]_vars

\* ------------------------------------------------------------- ProfilePage
\* a free slot for a call the page makes by itself (from a timer)
FreeSlot(i) == i \in FreeSlots /\ \A j \in FreeSlots : i <= j

\* fetchUserData, lines 87-90: userApi.getProfile(), that is
\* apiClient.get("/v1/user/me"), up to its network await, from page state p.
GetProfileCall(i, p) ==
  LET look == CacheLookup(cache, ProfileEndpoint, <<>>, now)
      call == [IdleReq EXCEPT !.method = "get", !.endpoint = ProfileEndpoint,
                              !.useCache = TRUE, !.caller = "app",
                              !.page = "profile", !.t0 = now]
  IN
  IF Truthy(look.data)
  THEN /\ ProfileLoaded(i, look.data, look.cache, storage, p)
       /\ last' = Obs("app", Ok(look.data), [call EXCEPT !.path = <<"cache">>],
                      look.owner)
  ELSE /\ cache' = look.cache
       /\ prefCache' = prefCache
       /\ req' = [req EXCEPT ![i] =
                    [call EXCEPT !.pc = "sent", !.nSent = 1,
                                 !.auth = RequestInterceptor(storage)]]
       /\ profilePage' = [p EXCEPT !.pc = "profile"]
       /\ last' = NoObs

\* fetchUserData from its first line to its first await, lines 37-90, from
\* page state p
FetchUserData(i, p) ==
  IF p.closure > MAX_RETRIES
  THEN /\ profilePage' = ShowFallback(p, storage)
       /\ last' = NoObs
       /\ UNCHANGED <<storage, user, cache, prefCache, req, refreshOp>>
  ELSE LET p1 == [p EXCEPT !.loading = TRUE] IN
       IF p.closure > 0
       THEN IF ~Has(storage, "refreshToken")
            THEN LET o == AuthRefreshNoToken(storage) IN
                 /\ storage' = o.storage
                 /\ user' = o.user
                 /\ profilePage' = RefreshFailed(p1)
                 /\ last' = Obs("authRefresh", o.res, IdleReq, "")
                 /\ UNCHANGED <<cache, prefCache, req, refreshOp>>
            ELSE /\ refreshOp.pc = "idle"
                 /\ refreshOp' =
                      [IdleOp EXCEPT !.pc = "wait", !.caller = "fetchUserData",
                                     !.rtok = Trim(getItem(storage, "refreshToken"))]
                 /\ profilePage' = [p1 EXCEPT !.pc = "refresh"]
                 /\ last' = NoObs
                 /\ UNCHANGED <<storage, user, cache, prefCache, req>>
       ELSE /\ GetProfileCall(i, p1)
            /\ UNCHANGED <<storage, user, refreshOp>>

\* ProfilePage is mounted (ProtectedRoute lets it render): the effect of
\* lines 36-136 runs with a user and calls the fetchUserData it has created.
ProfileMount(i) ==
  /\ Running
  /\ NextSlot(i)
  /\ ops' = ops + 1
  /\ user # NoStr /\ ~isLoading
  /\ profilePage.pc = "unmounted"
  /\ FetchUserData(i, [profilePage EXCEPT !.closure = profilePage.retryCount])
  /\ UNCHANGED <<isLoading, now, loginOp, boot, issued, loads, docVars, searchVars>>

\* A timer of fetchUserData fires: setTimeout(fetchUserData, ...) of lines 82
\* and 118 calls the same function again; the timeout of line 76 lets it go on
\* to getProfile.
ProfileTimer(i) ==
  /\ FreeSlot(i)
  /\ ops' = ops
  /\ profilePage.pc \in {"timer", "delay"}
  /\ IF profilePage.pc = "timer"
     THEN FetchUserData(i, profilePage)
     ELSE /\ GetProfileCall(i, profilePage)
          /\ UNCHANGED <<storage, user, refreshOp>>
  /\ UNCHANGED <<isLoading, now, loginOp, boot, issued, loads, docVars, searchVars>>

\* The profile page of a user who has logged in.
NextProfile ==
  \/ \E d \in DecodeOutcomes : CheckAuth(d)
  \/ \E u \in Usernames : LoginStart(u)
  \/ \E tr \in TokenAnswers : LoginRespond(tr)
  \/ \E i \in Slots : ProfileMount(i)
  \/ \E i \in Slots : ProfileTimer(i)
  \/ \E i \in Slots, resp \in ApiResponses : RespondFirst(i, resp)
  \/ \E i \in Slots, tr \in TokenAnswers : RespondRefresh(i, tr)
  \/ \E i \in Slots, resp \in ApiResponses : RespondReplay(i, resp)

\* Timers fire and every request gets its answer or its network error.
FairProfile ==
  /\ WF_vars(\E i \in Slots : ProfileTimer(i))
  /\ WF_vars(\E i \in Slots, resp \in ApiResponses : RespondFirst(i, resp))
  /\ WF_vars(\E i \in Slots, tr \in TokenAnswers : RespondRefresh(i, tr))
  /\ WF_vars(\E i \in Slots, resp \in ApiResponses : RespondReplay(i, resp))
  /\ WF_vars(\E tr \in TokenAnswers : LoginRespond(tr))

SpecProfile == Init /\ [][NextProfile]_vars /\ FairProfile

\* ------------------------------------------------------------- weather search
\* The objects handleSearch is called with: one property, any of the five
\* names, any value.
MaxSearches == 2
SearchValues == {Undefined, JNull, EmptyText, 0, 1}
SearchInputs ==
  {<<>>} \cup {<<<<SearchNames[k], v>>>> : k \in 1..Len(SearchNames), v \in SearchValues}
\* what WeatherPage searches for: a city by name, a place by its coordinates
SearchQueries ==
  {<<<<"cityName", 1>>>>, <<<<"cityName", 2>>>>, <<<<"lat", 1>>, <<"lon", 2>>>>}

\* handleSearch(searchParams) of useWeatherSearch, lines 9-16, up to the
\* network await of weatherApi.getForecast (apiClient.get with the cache).
\* searches is history: the input of each call, whether an earlier call was
\* still awaited when it was made, and how it ended.
HandleSearch(i, sp) ==
  LET fp == filteredParams(sp)
      look == CacheLookup(cache, ForecastEndpoint, fp, now)
      k == Len(searches) + 1
      entry == [input |-> sp, done |-> FALSE, res |-> Ok(JNull),
                overlap |-> \E j \in 1..Len(searches) : ~searches[j].done]
      call == [IdleReq EXCEPT !.method = "get", !.endpoint = ForecastEndpoint,
                              !.params = fp, !.useCache = TRUE, !.caller = "app",
                              !.page = "search", !.seq = k, !.t0 = now]
  IN
  /\ Running
  /\ NextSlot(i)
  /\ ops' = ops + 1
  /\ user # NoStr /\ ~isLoading
  /\ Len(searches) < MaxSearches
  /\ cache' = look.cache
  /\ IF Truthy(look.data)
     THEN /\ req' = req
          /\ weather' = SearchDone(SearchStart(weather), Ok(look.data))
          /\ searches' = Append(searches, [entry EXCEPT !.done = TRUE,
                                                       !.res = Ok(look.data)])
          /\ last' = Obs("app", Ok(look.data), [call EXCEPT !.path = <<"cache">>],
                         look.owner)
     ELSE /\ req' = [req EXCEPT ![i] =
                       [call EXCEPT !.pc = "sent", !.nSent = 1,
                                    !.auth = RequestInterceptor(storage)]]
          /\ weather' = SearchStart(weather)
          /\ searches' = Append(searches, entry)
          /\ last' = NoObs
  /\ UNCHANGED <<storage, user, isLoading, prefCache, now, loginOp, refreshOp,
                 boot, issued, loads, docVars, profilePage>>

\* The weather page of a user who has logged in.
NextSearch ==
  \/ \E d \in DecodeOutcomes : CheckAuth(d)
  \/ \E u \in Usernames : LoginStart(u)
  \/ \E tr \in TokenAnswers : LoginRespond(tr)
  \/ \E i \in Slots, sp \in SearchQueries : HandleSearch(i, sp)
  \/ \E i \in Slots, resp \in ApiResponses : RespondFirst(i, resp)
  \/ \E i \in Slots, tr \in TokenAnswers : RespondRefresh(i, tr)
  \/ \E i \in Slots, resp \in ApiResponses : RespondReplay(i, resp)

SpecSearch == Init /\ [][NextSearch]_vars

\* One search with any parameter object.
NextForecast ==
  \/ \E d \in DecodeOutcomes : CheckAuth(d)
  \/ \E u \in Usernames : LoginStart(u)
  \/ \E tr \in TokenAnswers : LoginRespond(tr)
  \/ \E i \in Slots, sp \in SearchInputs : searches = <<>> /\ HandleSearch(i, sp)
  \/ \E i \in Slots, resp \in ApiResponses : RespondFirst(i, resp)
  \/ \E i \in Slots, tr \in TokenAnswers : RespondRefresh(i, tr)
  \/ \E i \in Slots, resp \in ApiResponses : RespondReplay(i, resp)

SpecForecast == Init /\ [][NextForecast]_vars

\* ============================================================= claims
ApiCallers == {"app", "getPreferences", "logout"}
TokensAbsent == ~Has(storage, "accessToken") /\ ~Has(storage, "refreshToken")

\* C1: one call of apiClient.get, post or delete sends at most one refresh
\* request and sends its own request at most twice; when the replayed request
\* is answered 401 as well, the caller gets an error carrying that 401 and
\* exactly one refresh call was made.
C1_SingleRetry ==
  /\ \A i \in Slots : req[i].nRefresh <= 1 /\ req[i].nSent <= 2
  /\ last.nRefresh <= 1 /\ last.nSent <= 2
  /\ (last.op \in ApiCallers /\ Len(last.path) = 3 /\ last.path[3] = "401")
       => (~last.res.ok /\ last.res.err.status = 401 /\ last.nRefresh = 1
           /\ last.nSent = 2)

C1_Witness == last.op = "app" /\ last.path = <<"401", "pair", "401">>

\* C2: a call answered 401, whose refresh call succeeds and whose replay is
\* answered 200, hands its caller the body of that 200; the step in which the
\* refresh call succeeds leaves in localStorage the pair it returned (each token
\* trimmed), and the step in which the replay ends leaves localStorage as it is.
C2_Result ==
  (last.op \in ApiCallers /\ last.path = <<"401", "pair", "200">>)
    => (last.res = Ok(last.body) /\ last.body \in Bodies
        /\ last.nSent = 2 /\ last.nRefresh = 1)

C2_Persisted ==
  \A i \in Slots :
    (req[i].pc = "refreshing" /\ req'[i].pc = "replaying")
      => /\ getItem(storage', "accessToken") = Trim(req'[i].pair.access)
         /\ getItem(storage', "refreshToken") = Trim(req'[i].pair.refresh)

C2_Kept ==
  \A i \in Slots :
    (req[i].pc = "replaying" /\ req'[i].pc = "idle" /\ req[i].caller # "logout")
      => storage' = storage

C2_RefreshThenReplay == []C2_Result /\ [][C2_Persisted /\ C2_Kept]_vars

C2_Witness ==
  /\ last.op = "app" /\ last.path = <<"401", "pair", "200">>
  /\ getItem(storage, "accessToken") = Trim(last.pair.access)
  /\ getItem(storage, "refreshToken") = Trim(last.pair.refresh)

\* C3: when the refresh call a 401 triggered fails (rejected, unreachable, or
\* answered without a usable pair), the call ends with both tokens absent from
\* localStorage and its caller gets the failure of the refresh, not the 401.
RefreshFailure(tr) ==
  IF tr.shape \in {"reject", "network"} THEN AxiosError(TokenErrorResp(tr))
  ELSE IF tr.shape = "no_access" THEN JsError("Invalid token response from server")
  ELSE TypeError

C3_RefreshFailure ==
  (last.op \in ApiCallers /\ Len(last.path) = 2 /\ last.path[1] = "401"
     /\ last.path[2] # "pair")
    => /\ TokensAbsent
       /\ last.res = Fail(RefreshFailure(last.pair))
       /\ last.res.err \notin {AxiosError(Unauthorized), handleError(Unauthorized)}

C3_Witness ==
  last.op = "app" /\ last.path[1] = "401" /\ last.pair.shape = "reject"

SessionOpEnded ==
  \/ last.op \in {"login", "authRefresh", "logout", "checkAuth"}
  \/ (last.op \in ApiCallers /\ Len(last.path) >= 1 /\ last.path[1] = "401")

C5_PairInvariant ==
  SessionOpEnded => (Has(storage, "accessToken") <=> Has(storage, "refreshToken"))

\* C6: after an operation that removes the credential pair (logout, a failed
\* AuthProvider refreshToken, a call whose refresh on a 401 failed,
\* checkAuth), accessToken absent implies username absent.
C6_UsernameCleared ==
  (/\ \/ last.op \in {"authRefresh", "logout", "checkAuth"}
      \/ (last.op \in ApiCallers /\ Len(last.path) >= 1 /\ last.path[1] = "401"
            /\ ~last.res.ok)
   /\ ~Has(storage, "accessToken"))
    => ~Has(storage, "username")

\* C7: userApi.getPreferences never returns a value that a cache took in
\* during a session which a completed logout has ended.
C7_NoStalePreferences ==
  (last.op = "getPreferences" /\ last.res.ok) => last.owner # "ended"

\* C8: when logout completes, whatever the remote logout call did, the three
\* keys are absent from localStorage, user is null and isLoading is false.
C8_LogoutAnonymous ==
  last.op = "logout"
    => (/\ TokensAbsent
        /\ ~Has(storage, "username")
        /\ user = NoStr
        /\ isLoading = FALSE)

C8_Witness ==
  /\ last.op = "logout" /\ ~last.res.ok
  /\ last.path[1] = "401" /\ last.pair.shape = "reject"

\* C9: no apiClient.get call of a page returns a value that the generic cache
\* took in during a session which a completed logout has ended.
C9_NoStaleGet ==
  (last.op = "app" /\ last.res.ok /\ last.path = <<"cache">>)
    => last.owner # "ended"

\* C10: for every entry of the cache and every insertion order of the
\* parameters it was set under, generateKey gives the entry's key, and get
\* returns the entry's value while the entry is fresh.
C10_KeyOrderIndependent ==
  \A k \in DOMAIN cache : \A q \in ParamObjects :
    SamePairs(q, k[2])
      => /\ generateKey(k[1], q) = k
         /\ now - cache[k].timestamp <= CacheMaxAge
              => CacheLookup(cache, k[1], q, now).data = cache[k].data

C10_Witness ==
  /\ last.op = "cacheGet" /\ Truthy(last.res.data)
  /\ \E k \in DOMAIN cache :
       k[2] # last.path /\ SamePairs(k[2], last.path) /\ cache[k].data = last.res.data

\* C11: a get of a key whose entry was set less than maxAge ago returns the
\* entry's data and leaves the map as it is; a get of a key whose entry was
\* set more than maxAge ago returns null and removes the entry; set stores
\* the data given with the time of the call.
C11_Get ==
  \A k \in DOMAIN cache :
    (last'.op = "cacheGet" /\ generateKey(ForecastEndpoint, last'.path) = k)
      => /\ now - cache[k].timestamp < CacheMaxAge
              => (last'.res = Ok(cache[k].data) /\ cache' = cache)
         /\ now - cache[k].timestamp > CacheMaxAge
              => (last'.res = Ok(JNull) /\ k \notin DOMAIN cache')

C11_Set ==
  last'.op = "cacheSet"
    => LET k == generateKey(ForecastEndpoint, last'.path) IN
       /\ k \in DOMAIN cache'
       /\ cache'[k].data = last'.res.data
       /\ cache'[k].timestamp = now

C11_CacheExpiry == [][C11_Get /\ C11_Set]_vars

\* an entry older than maxAge was looked up: null came back, the entry is gone
C11_Witness ==
  /\ last.op = "cacheGet" /\ Truthy(last.body) /\ last.res = Ok(JNull)
  /\ now > CacheMaxAge /\ cache = EmptyCache

\* C12: a get with useCache = true, made while the cache holds for its key an
\* entry that an earlier successful get stored less than maxAge ago, sends no
\* request and returns the data of that entry (the data the earlier get
\* returned).
C12_SecondGetHits ==
  [][\A i \in Slots :
       LET key == generateKey(ProfileEndpoint, <<>>) IN
       (/\ ApiGet(i, TRUE)
        /\ key \in DOMAIN cache
        /\ now - cache[key].timestamp < CacheMaxAge)
         => (req' = req /\ last'.res = Ok(cache[key].data))]_vars

\* The Map of the generic cache without the history field.
CacheData(c) ==
  [k \in DOMAIN c |-> [data |-> c[k].data, timestamp |-> c[k].timestamp]]

\* C13: a get with useCache = false, a post and a delete send their request
\* whatever the cache holds, and neither the step that starts such a call nor
\* any step in which its answers arrive changes the generic cache (a reload of
\* the page ends the call with the cache).
C13_Start ==
  \A i \in Slots :
    (ApiGet(i, FALSE) \/ \E m \in {"post", "delete"} : ApiSend(i, m)
       \/ LogoutRemote(i))
      => (req'[i].pc = "sent" /\ CacheData(cache') = CacheData(cache))

C13_Answer ==
  \A i \in Slots :
    (req[i].pc # "idle" /\ req'[i] # req[i] /\ loads' = loads
       /\ ~(req[i].method = "get" /\ req[i].useCache))
      => CacheData(cache') = CacheData(cache)

C13_CacheBypassed == [][C13_Start /\ C13_Answer]_vars

\* an uncached call has returned a value other than the one the cache holds
\* for its endpoint
C13_Witness ==
  LET key == generateKey(ProfileEndpoint, <<>>) IN
  /\ last.op = "app" /\ last.res.ok /\ last.path = <<"200">>
  /\ key \in DOMAIN cache
  /\ cache[key].data # last.res.data
  /\ now - cache[key].timestamp < CacheMaxAge

\* C14: a getPreferences call made while the preferences cache holds an entry
\* older than its maxAge sends a network request.
C14_ExpiredPrefsRefetched ==
  [][\A i \in Slots :
       (/\ GetPreferences(i)
        /\ Truthy(prefCache.data)
        /\ now - prefCache.timestamp > PrefMaxAge)
         => req'[i].pc = "sent"]_vars

\* C15: getPreferences never returns preferences that a cache stored before
\* an updatePreferences call which has completed successfully with other
\* preferences.
C15_UpdateThenGet ==
  (last.op = "getPreferences" /\ last.res.ok) => ~last.preUpdate

\* C16: no two calls that were sent with the same access token are both
\* awaiting a refresh call of the response interceptor.
C16_OneRefreshInFlight ==
  \A i, j \in Slots :
    (/\ i # j
     /\ req[i].pc = "refreshing" /\ req[j].pc = "refreshing"
     /\ req[i].auth # NoStr)
      => req[i].auth # req[j].auth

\* C17: when checkAuth finds an access token and a username stored and the
\* token's expiry claim is past or less than 5 minutes ahead, it issues a
\* refresh call and isLoading stays true; while checkAuth awaits that call,
\* isLoading is true.
C17_Issued ==
  \A d \in DecodeOutcomes :
    (/\ CheckAuth(d)
     /\ Has(storage, "accessToken") /\ Has(storage, "username")
     /\ d.ok /\ d.exp - now < GraceMs)
      => (refreshOp'.pc = "wait" /\ isLoading')

C17_Awaited == boot = "checking" => (refreshOp.pc = "wait" /\ isLoading)

C17_RefreshBeforeReady == [][C17_Issued]_vars /\ []C17_Awaited

\* C18: a login with an empty username sends no request: neither
\* LoginPage.handleSubmit nor AuthProvider.login (which hands the username to
\* authApi.login) ends awaiting POST /v1/login.
C18_EmptyLoginRejected ==
  [][\A u \in LoginNames :
       IsEmpty(Trim(u))
         => /\ LoginStart(u) => loginOp'.pc # "wait"
            /\ \A p \in Passwords : HandleSubmit(u, p) => loginOp'.pc # "wait"]_vars

\* C19: when AuthProvider.refreshToken fails (called by a page or awaited by
\* checkAuth; no refresh token stored, request rejected, server unreachable),
\* the step leaves accessToken, refreshToken and username absent from
\* localStorage and user null, and the error thrown is the failure.
RefreshErrors ==
  {JsError("No refresh token available"),
   JsError(TokenErrorResp(TokenResp("reject", NoStr, NoStr)).detail),
   JsError("Token refresh failed")}

C19_RefreshFailureAnonymous ==
  (last.op \in {"authRefresh", "checkAuth"} /\ ~last.res.ok)
    => /\ TokensAbsent
       /\ ~Has(storage, "username")
       /\ user = NoStr
       /\ last.res.err \in RefreshErrors

\* a page's refreshToken has been rejected by the server
C19_Witness ==
  /\ last.op = "authRefresh"
  /\ last.res = Fail(JsError("Invalid refresh token"))
  /\ boot = "ready"

\* C20: every error a call of apiClient.get, post or delete throws to its
\* caller is an error made by ApiClient.handleError from a response (or the
\* lack of one) to one of the call's requests.
NormalizedErrors ==
  {handleError(r) : r \in ApiResponses \cup {TokenErrorResp(tr) : tr \in TokenFailures}}

C20_ErrorsNormalized ==
  (last.op \in ApiCallers /\ ~last.res.ok) => last.res.err \in NormalizedErrors

\* C21: a read of each cache made while the cache holds an entry (a truthy
\* value) of age at most maxAge is served from that cache: apiClient.get from
\* the generic cache, getPreferences from the preferences cache and
\* getOpenAPISchema from the schema cache.
C21_GenericHit ==
  LET key == generateKey(ProfileEndpoint, <<>>) IN
  \A i \in Slots :
    (/\ ApiGet(i, TRUE)
     /\ key \in DOMAIN cache
     /\ Truthy(cache[key].data)
     /\ now - cache[key].timestamp <= CacheMaxAge)
      => (last'.path = <<"cache">> /\ last'.res = Ok(cache[key].data))

C21_PreferencesHit ==
  \A i \in Slots :
    (/\ GetPreferences(i)
     /\ Truthy(prefCache.data)
     /\ now - prefCache.timestamp <= PrefMaxAge)
      => (last'.path = <<"prefCache">> /\ last'.res = Ok(prefCache.data))

C21_SchemaHit ==
  (/\ GetOpenAPISchema
   /\ Truthy(schemaCache.data)
   /\ now - schemaCache.timestamp <= SchemaMaxAge)
    => (last'.path = <<"schemaCache">> /\ last'.res = Ok(schemaCache.data))

C21_HitAtMaxAge == [][C21_GenericHit /\ C21_PreferencesHit /\ C21_SchemaHit]_vars

\* C22: every step that sends the request of an ApiClient call (the first
\* send and the replay) sends it with the access token that localStorage holds
\* at the end of the step, trimmed, and with no Authorization header when
\* localStorage holds none; a call started with no access token stored still
\* sends its request and nothing is thrown.
C22_Bearer ==
  \A i \in Slots :
    (req'[i].nSent = req[i].nSent + 1 /\ loads' = loads)
      => req'[i].auth = IF Has(storage', "accessToken")
                        THEN Trim(getItem(storage', "accessToken"))
                        ELSE NoStr

C22_Anonymous ==
  \A i \in Slots :
    (/\ ApiGet(i, FALSE) \/ \E m \in {"post", "delete"} : ApiSend(i, m)
     /\ ~Has(storage, "accessToken"))
      => (req'[i].pc = "sent" /\ req'[i].auth = NoStr /\ last' = NoObs)

C22_BearerIsStoredToken == [][C22_Bearer /\ C22_Anonymous]_vars

\* a request is in flight with the trimmed form of a token stored untrimmed
C22_Witness ==
  \E i \in Slots :
    /\ req[i].pc = "sent"
    /\ getItem(storage, "accessToken").pad
    /\ req[i].auth = Trim(getItem(storage, "accessToken"))

\* C23: when checkAuth runs at application start with accessToken and username
\* stored and no refreshToken stored, it leaves the session without a user.
C23_NoRefreshTokenAnonymous ==
  [][(/\ boot = "mount" /\ boot' = "ready"
      /\ Has(storage, "accessToken") /\ Has(storage, "username")
      /\ ~Has(storage, "refreshToken"))
       => user' = NoStr]_vars

C26_AbsentAfterLogout ==
  [][(last.op = "logout" /\ TokensAbsent /\ loginOp' = loginOp)
       => (~Has(storage', "accessToken") /\ ~Has(storage', "refreshToken"))]_vars

\* C27: a step in which localStorage loses the access token or the refresh
\* token of a stored pair is the completion of logout, or the failure of a
\* refresh call (of the response interceptor or of AuthProvider.refreshToken)
\* that was sent with the stored refresh token.
C27_Removes ==
  /\ Has(storage, "accessToken") /\ Has(storage, "refreshToken")
  /\ ~Has(storage', "accessToken") \/ ~Has(storage', "refreshToken")

C27_OwnRefreshFailed ==
  \/ \E i \in Slots :
       /\ req[i].pc = "refreshing" /\ req'[i].pc = "idle"
       /\ req[i].rtok = Trim(getItem(storage, "refreshToken"))
  \/ /\ refreshOp.pc = "wait" /\ refreshOp'.pc = "idle"
     /\ refreshOp.rtok = Trim(getItem(storage, "refreshToken"))

C27_PairRemovedByOwner ==
  [][C27_Removes => (last'.op = "logout" \/ C27_OwnRefreshFailed)]_vars

\* C28: whenever user is non-null, isLoading is false and no login, logout or
\* refresh call is awaiting its answer, localStorage holds an access token.
C28_AuthenticatedHasToken ==
  (/\ user # NoStr /\ ~isLoading
   /\ loginOp.pc = "idle" /\ refreshOp.pc = "idle"
   /\ \A i \in Slots : req[i].caller # "logout" /\ req[i].pc # "refreshing")
    => Has(storage, "accessToken")

\* C25: in a run of the profile page where timers fire, every request is
\* answered and no getProfile ever succeeds, fetchUserData, once called, ends
\* for good: no request or timer of it is pending, the fallback profile and
\* the error message are shown and loading is false.
C25_Stopped ==
  /\ profilePage.pc = "idle"
  /\ profilePage.profile = FallbackProfile
  /\ profilePage.error = TroubleMsg
  /\ ~profilePage.loading

C25_RetriesStop ==
  ([](profilePage.profile \notin Bodies) /\ <>(profilePage.pc # "unmounted"))
    => <>[]C25_Stopped

\* C29: when a second handleSearch was called while the first was still
\* awaited and both have ended, the weather state shows how the second ended:
\* its data with no error, or its error message with no data.
C29_LatestSearchWins ==
  (/\ Len(searches) = 2
   /\ searches[2].overlap
   /\ searches[1].done /\ searches[2].done)
    => weather = SearchDone(SearchStart(weather), searches[2].res)

\* C30: a handleSearch that sends GET /weather/forecast sends, under its wire
\* name, every property of its argument whose value is not undefined, null or
\* the empty string (the number 0 included).
C30_Forwarded ==
  \A i \in Slots, sp \in SearchInputs :
    (HandleSearch(i, sp) /\ req'[i].pc = "sent")
      => \A k \in 1..Len(SearchNames) :
           Prop(sp, SearchNames[k]) \notin {Undefined, JNull, EmptyText}
             => <<WireNames[k], Prop(sp, SearchNames[k])>> \in Range(req'[i].params)

C30_NonEmptyForwarded == [][C30_Forwarded]_vars

====
